---- MODULE Spec2Model ----
(***************************************************************************)
(* Model of the compositing draw driver csmGlDraw                          *)
(* (Live2DCubismComponents/src/Rendering/GlDraw.c).                        *)
(*                                                                         *)
(* One call of csmGlDraw is a frame.  The frame is cut at the boundaries   *)
(* of its draw loop: entering the function (barebone check, context        *)
(* initialisation, vertex-array bind), one loop iteration per entry of     *)
(* SortedDrawables, and the return.  Every call the code makes to the      *)
(* graphics service is appended to a log; `seg` holds the calls issued by  *)
(* the last step and `gl` the state those calls leave in the service.      *)
(*                                                                         *)
(* Drawable indices are 0-based as in the code; TLA+ sequences are         *)
(* 1-based, so entry d of a C array is element d + 1 of its sequence.      *)
(* The per-drawable attributes the loop reads once, when it reaches the    *)
(* drawable (texture handle, blend mode, opacity, mask list), are drawn    *)
(* from their domains at that read and kept in `rd`.                       *)
(***************************************************************************)
EXTENDS Integers, Sequences, FiniteSets, TLC

\* ------------------------------------------------------------------ bounds

\* Largest renderer->DrawableCount explored.
MaxDrawables == 2

\* Largest csmGetDrawableMaskCounts(model)[d] explored.
MaxMasks == 2

\* ------------------------------------------------------- program constants

\* enum GlProgram (Local.h); InitializeDrawContext stores 0 in ActiveProgram
\* and activates GlNonMaskedProgram, so the non-masked program is entry 0.
GlNonMaskedProgram == 0

GlMaskedProgram == 1

GlMaskProgram == 2

\* Row numbers of the BlendScale table.
NormalBlending == 0

AdditiveBlending == 1

MultiplicativeBlending == 2

\* Blend scales table, one row per blend mode.
BlendScale ==
  << <<"GL_ONE", "GL_ONE_MINUS_SRC_ALPHA", "GL_ONE", "GL_ONE_MINUS_SRC_ALPHA">>,
     <<"GL_SRC_ALPHA", "GL_ONE", "GL_ZERO", "GL_ONE">>,
     <<"GL_DST_COLOR", "GL_ONE_MINUS_SRC_ALPHA", "GL_ZERO", "GL_ONE">> >>

\* ------------------------------------------------------------ input domains

BlendModes == {NormalBlending, AdditiveBlending, MultiplicativeBlending}

\* Values of context->Textures[renderDrawable->TextureIndex]: GLuint handles
\* supplied by the caller; 0 is OpenGL's "no texture" name.
TextureHandles == {0, 1, 2}

\* Values of renderDrawable->Opacity (0.0 and 1.0).
Opacities == {0, 1}

\* Values of the user matrix mvp, by identity.
Matrices == {1, 2}

\* Orders in which n drawables can be sorted: SortedDrawables[d].DrawableIndex.
SortedOrders(n) ==
  {s \in [1..n -> 0..(n - 1)] : \A i, j \in 1..n : s[i] = s[j] => i = j}

\* csmGetDrawableMasks(model)[d] for a model of n drawables: up to MaxMasks
\* drawable indices, no drawable listed twice.
MaskLists(n) ==
  UNION {{s \in [1..k -> 0..(n - 1)] : \A i, j \in 1..k : s[i] = s[j] => i = j} :
         k \in 0..MaxMasks}

\* The csmGlRenderer fields csmGlDraw reads.
Renderers ==
  UNION {
    [IsBarebone : BOOLEAN,
     DrawableCount : {n},
     SortedDrawables : SortedOrders(n),
     IsVisible : [0..(n - 1) -> BOOLEAN]] : n \in 0..MaxDrawables}

\* The csmRenderDrawable at index i of a renderer r, as read by the loop.  Of
\* a non-visible drawable the loop reads IsVisible alone; its mask list is
\* kept beside it, its other fields are left at 0.
RenderDrawables(r, i) ==
  IF r.IsVisible[i]
    THEN [index : {i},
          IsVisible : {TRUE},
          Texture : TextureHandles,
          BlendMode : BlendModes,
          Opacity : Opacities,
          Masks : MaskLists(r.DrawableCount)]
    ELSE [index : {i},
          IsVisible : {FALSE},
          Texture : {0},
          BlendMode : {0},
          Opacity : {0},
          Masks : MaskLists(r.DrawableCount)]

NoDrawable ==
  [index |-> -1, IsVisible |-> FALSE, Texture |-> 0, BlendMode |-> 0,
   Opacity |-> 0, Masks |-> <<>>]

\* Outside a frame there is no renderer and no draw context: csmGlDraw's
\* context is a local that InitializeDrawContext fills before any read.
NoRenderer ==
  [IsBarebone |-> TRUE, DrawableCount |-> 0, SortedDrawables |-> <<>>,
   IsVisible |-> <<>>]

NoContext ==
  [ActiveProgram |-> 0, ActiveBlendMode |-> 0, ActiveTexture |-> 0,
   ActiveOpacity |-> 0]

\* ------------------------------------------------------------------- state

VARIABLES
  pc,         \* "idle" | "loop" (at the loop test) | "body" (a body ran) | "returned"
  renderer,   \* the renderer of the running frame
  mvp,        \* the user matrix of the running frame
  d,          \* loop counter of csmGlDraw
  context,    \* DrawContext: ActiveProgram, ActiveBlendMode, ActiveTexture, ActiveOpacity
  rd,         \* the render drawable of the last loop iteration
  gl,         \* graphics service: bound program, blend function, mask target
  seg,        \* graphics-service calls issued by the last step
  mainDraws,  \* drawables drawn by the loop's own glDrawElements, this frame
  bindFailed, \* a program or texture bind failed in the service, this frame
  drawBalance \* indexed draw calls issued this frame, less those its drawables call for

vars ==
  <<pc, renderer, mvp, d, context, rd, gl, seg, mainDraws, bindFailed, drawBalance>>

\* ------------------------------------------------- graphics-service calls

Call(op, pass, n, f) == [op |-> op, pass |-> pass, n |-> n, f |-> f]

ActivateGlProgram(pass, program) == Call("ActivateGlProgram", pass, program, <<>>)

SetGlMvp(pass, m) == Call("SetGlMvp", pass, m, <<>>)

SetGlOpacity(pass, o) == Call("SetGlOpacity", pass, o, <<>>)

SetGlDiffuseTexture(pass, t) == Call("SetGlDiffuseTexture", pass, t, <<>>)

SetGlMaskTexture(pass, t) == Call("SetGlMaskTexture", pass, t, <<>>)

glBlendFuncSeparate(pass, f) == Call("glBlendFuncSeparate", pass, 0, f)

glDrawElements(pass, i) == Call("glDrawElements", pass, i, <<>>)

\* The service after one call: what is bound, which blend function is in
\* effect, whether the off-screen mask target is the render target.
GlApply(g, c) ==
  CASE c.op = "ActivateGlProgram"      -> [g EXCEPT !.program = c.n]
    [] c.op = "glBlendFuncSeparate"    -> [g EXCEPT !.blend = c.f]
    [] c.op = "ActivateGlMaskbuffer"   -> [g EXCEPT !.maskbuffer = TRUE]
    [] c.op = "DeactivateGlMaskbuffer" -> [g EXCEPT !.maskbuffer = FALSE]
    [] OTHER                           -> g

RECURSIVE GlRun(_, _)
GlRun(g, calls) ==
  IF calls = <<>> THEN g ELSE GlRun(GlApply(g, Head(calls)), Tail(calls))

\* The drawables of the loop's own draw calls among `calls`, in call order.
IsMainDraw(c) == c.op = "glDrawElements" /\ c.pass = "main"

MainDrawsOf(calls) ==
  LET main == SelectSeq(calls, IsMainDraw)
  IN [k \in 1..Len(main) |-> main[k].n]

\* The calls that bind a program or a texture.
IsBind(c) ==
  c.op \in {"ActivateGlProgram", "SetGlDiffuseTexture", "SetGlMaskTexture"}

\* The number of indexed draw calls among `calls`.
DrawCallsIn(calls) == Len(SelectSeq(calls, LAMBDA c : c.op = "glDrawElements"))

\* The number of indexed draw calls drawable r calls for: none if it is not
\* visible, else one for each of its masks and one for itself.
DrawCallsFor(r) == IF r.IsVisible THEN Len(r.Masks) + 1 ELSE 0

\* ----------------------------------------------------------------- GlDraw.c

\* InitializeDrawContext that zeroes the cache instead of storing the
\* values no drawable has.
InitializeDrawContext_ZeroCache(m) ==
  [context |-> [ActiveProgram |-> 0, ActiveBlendMode |-> 0,
                ActiveTexture |-> 0, ActiveOpacity |-> 0],
   calls |-> <<ActivateGlProgram("init", GlNonMaskedProgram), SetGlMvp("init", m)>>]

\* InitializeDrawContext: the fresh context and the calls it issues.
InitializeDrawContext(m) ==
  [context |-> [ActiveProgram |-> 0, ActiveBlendMode |-> 3,
                ActiveTexture |-> 0, ActiveOpacity |-> -1],
   calls |-> <<ActivateGlProgram("init", GlNonMaskedProgram), SetGlMvp("init", m)>>]

\* MaskPass with the mask program bound before the mask target is switched to.
MaskPass_ProgramBeforeTarget(c, m, masks) ==
  << ActivateGlProgram("mask", GlMaskProgram),
     Call("ActivateGlMaskbuffer", "mask", 0, <<>>),
     SetGlMvp("mask", m),
     SetGlOpacity("mask", c.ActiveOpacity),
     SetGlDiffuseTexture("mask", c.ActiveTexture),
     glBlendFuncSeparate("mask", BlendScale[1]) >>
  \o [k \in 1..Len(masks) |-> glDrawElements("mask", masks[k])]
  \o << Call("DeactivateGlMaskbuffer", "mask", 0, <<>>) >>

\* MaskPass that leaves out the masks that are not visible themselves.
MaskPass_VisibleMasksOnly(c, m, masks) ==
  LET shown == SelectSeq(masks, LAMBDA i : renderer.IsVisible[i])
  IN << Call("ActivateGlMaskbuffer", "mask", 0, <<>>),
        ActivateGlProgram("mask", GlMaskProgram),
        SetGlMvp("mask", m),
        SetGlOpacity("mask", c.ActiveOpacity),
        SetGlDiffuseTexture("mask", c.ActiveTexture),
        glBlendFuncSeparate("mask", BlendScale[1]) >>
     \o [k \in 1..Len(shown) |-> glDrawElements("mask", shown[k])]
     \o << Call("DeactivateGlMaskbuffer", "mask", 0, <<>>) >>

\* MaskPass that draws the first mask of the list only.
MaskPass_FirstMaskOnly(c, m, masks) ==
  << Call("ActivateGlMaskbuffer", "mask", 0, <<>>),
     ActivateGlProgram("mask", GlMaskProgram),
     SetGlMvp("mask", m),
     SetGlOpacity("mask", c.ActiveOpacity),
     SetGlDiffuseTexture("mask", c.ActiveTexture),
     glBlendFuncSeparate("mask", BlendScale[1]),
     glDrawElements("mask", masks[1]),
     Call("DeactivateGlMaskbuffer", "mask", 0, <<>>) >>

\* MaskPass that leaves the mask target active.
MaskPass_NoDeactivate(c, m, masks) ==
  << Call("ActivateGlMaskbuffer", "mask", 0, <<>>),
     ActivateGlProgram("mask", GlMaskProgram),
     SetGlMvp("mask", m),
     SetGlOpacity("mask", c.ActiveOpacity),
     SetGlDiffuseTexture("mask", c.ActiveTexture),
     glBlendFuncSeparate("mask", BlendScale[1]) >>
  \o [k \in 1..Len(masks) |-> glDrawElements("mask", masks[k])]

\* SetGlState, "Handle masking": the calls of the mask pass.
MaskPass(c, m, masks) ==
  << Call("ActivateGlMaskbuffer", "mask", 0, <<>>),
     ActivateGlProgram("mask", GlMaskProgram),
     SetGlMvp("mask", m),
     SetGlOpacity("mask", c.ActiveOpacity),
     SetGlDiffuseTexture("mask", c.ActiveTexture),
     glBlendFuncSeparate("mask", BlendScale[1]) >>
  \o [k \in 1..Len(masks) |-> glDrawElements("mask", masks[k])]
  \o << Call("DeactivateGlMaskbuffer", "mask", 0, <<>>) >>

\* PickProgram that never picks the masked program.
PickProgram_NeverMasked(maskCount) == GlNonMaskedProgram

\* SetGlState: the program picked for a drawable with maskCount masks.
PickProgram(maskCount) ==
  IF maskCount > 0 THEN GlMaskedProgram ELSE GlNonMaskedProgram

\* SetGlState, "Set program": the context after a program switch.
SwitchProgram(c, program) ==
  [ActiveProgram |-> program, ActiveBlendMode |-> 3,
   ActiveTexture |-> 0, ActiveOpacity |-> -1]

\* SwitchCalls that leaves the matrix of the program bound before.
SwitchCalls_NoMvp(program, m, maskTexture) ==
  << ActivateGlProgram("state", program) >>
  \o (IF program = GlMaskedProgram
        THEN << SetGlMaskTexture("state", maskTexture) >> ELSE <<>>)

\* SetGlState, "Set program": the calls of a program switch.
SwitchCalls(program, m, maskTexture) ==
  << ActivateGlProgram("state", program), SetGlMvp("state", m) >>
  \o (IF program = GlMaskedProgram
        THEN << SetGlMaskTexture("state", maskTexture) >> ELSE <<>>)

\* TextureDiffers without the cache test.
TextureDiffers_Always(c, r) == TRUE

\* SetGlState: the three cache tests.
TextureDiffers(c, r) == r.Texture # c.ActiveTexture

BlendModeDiffers(c, r) == r.BlendMode # c.ActiveBlendMode

OpacityDiffers(c, r) == r.Opacity # c.ActiveOpacity

\* HandleMasking that records the mask program as the active one.
HandleMasking_InvalidatesCache(s, m, r) ==
  IF Len(r.Masks) > 0
    THEN [context |-> [s.context EXCEPT !.ActiveProgram = GlMaskProgram],
          calls |-> s.calls \o MaskPass(s.context, m, r.Masks)]
    ELSE s

\* SetGlState, stage by stage; each stage takes and returns the context
\* and the calls issued so far.
HandleMasking(s, m, r) ==
  IF Len(r.Masks) > 0
    THEN [s EXCEPT !.calls = @ \o MaskPass(s.context, m, r.Masks)]
    ELSE s

SetProgram(s, m, program, maskTexture) ==
  IF s.context.ActiveProgram # program
    THEN [context |-> SwitchProgram(s.context, program),
          calls |-> s.calls \o SwitchCalls(program, m, maskTexture)]
    ELSE s

SetDiffuseTexture(s, r) ==
  IF TextureDiffers(s.context, r)
    THEN [context |-> [s.context EXCEPT !.ActiveTexture = r.Texture],
          calls |-> Append(s.calls, SetGlDiffuseTexture("state", r.Texture))]
    ELSE s

SetBlendState(s, r) ==
  IF BlendModeDiffers(s.context, r)
    THEN [context |-> [s.context EXCEPT !.ActiveBlendMode = r.BlendMode],
          calls |-> s.calls \o << Call("glEnable", "state", 0, <<>>),
                                  glBlendFuncSeparate("state", BlendScale[r.BlendMode + 1]) >>]
    ELSE s

SetOpacity(s, r) ==
  IF OpacityDiffers(s.context, r)
    THEN [context |-> [s.context EXCEPT !.ActiveOpacity = r.Opacity],
          calls |-> Append(s.calls, SetGlOpacity("state", r.Opacity))]
    ELSE s

\* SetGlState: the context it leaves and the calls it issues for drawable r.
SetGlState(c, m, r, maskTexture) ==
  SetOpacity(
    SetBlendState(
      SetDiffuseTexture(
        SetProgram(
          HandleMasking([context |-> c, calls |-> <<>>], m, r),
          m, PickProgram(Len(r.Masks)), maskTexture),
        r),
      r),
    r)

\* DontDraw without the barebone test.
DontDraw_Never(r) == FALSE

\* csmGlDraw: "Don't draw barebone renderers".
DontDraw(r) == r.IsBarebone

\* SkipDrawable without the visibility test.
SkipDrawable_Never(r) == FALSE

\* csmGlDraw: "Skip non-visible drawables".
SkipDrawable(r) == ~r.IsVisible

\* LoopContinues leaving the loop once a bind has failed.
LoopContinues_StopOnFailure(i, r, failed) == i < r.DrawableCount /\ ~failed

\* LoopContinues stopping one entry short.
LoopContinues_OneShort(i, r, failed) == i + 1 < r.DrawableCount

\* csmGlDraw: the loop condition.
LoopContinues(i, r, failed) == i < r.DrawableCount

\* ----------------------------------------------------------------- actions

Init ==
  /\ pc = "idle"
  /\ renderer = NoRenderer
  /\ mvp = 1
  /\ d = 0
  /\ context = NoContext
  /\ rd = NoDrawable
  /\ gl = [program |-> -1, blend |-> <<"GL_ONE", "GL_ZERO", "GL_ONE", "GL_ZERO">>,
           maskbuffer |-> FALSE, maskTexture |-> 3]
  /\ seg = <<>>
  /\ mainDraws = <<>>
  /\ bindFailed = FALSE
  /\ drawBalance = 0

\* csmGlDraw on a barebone renderer: returns at once.
csmGlDraw_Barebone ==
  /\ pc = "idle"
  /\ \E r \in Renderers, m \in Matrices :
       /\ DontDraw(r)
       /\ renderer' = r
       /\ mvp' = m
  /\ pc' = "returned"
  /\ d' = 0
  /\ rd' = NoDrawable
  /\ seg' = <<>>
  /\ mainDraws' = <<>>
  /\ bindFailed' = FALSE
  /\ drawBalance' = 0
  /\ UNCHANGED <<context, gl>>

\* csmGlDraw up to its loop: context initialisation and geometry bind.
csmGlDraw_Begin ==
  /\ pc = "idle"
  /\ \E r \in Renderers, m \in Matrices :
       LET init == InitializeDrawContext(m)
           calls == init.calls \o << Call("glBindVertexArray", "init", 0, <<>>) >>
       IN /\ ~DontDraw(r)
          /\ renderer' = r
          /\ mvp' = m
          /\ context' = init.context
          /\ seg' = calls
          /\ gl' = GlRun(gl, calls)
          /\ drawBalance' = DrawCallsIn(calls)
  /\ pc' = "loop"
  /\ d' = 0
  /\ rd' = NoDrawable
  /\ mainDraws' = <<>>
  /\ bindFailed' = FALSE

\* The loop body on a non-visible drawable: continue.
csmGlDraw_Skip ==
  /\ pc = "loop"
  /\ LoopContinues(d, renderer, bindFailed)
  /\ \E r \in RenderDrawables(renderer, renderer.SortedDrawables[d + 1]) :
       /\ SkipDrawable(r)
       /\ rd' = r
       /\ drawBalance' = drawBalance - DrawCallsFor(r)
  /\ pc' = "body"
  /\ seg' = <<>>
  /\ UNCHANGED <<renderer, mvp, d, context, gl, mainDraws, bindFailed>>

\* The loop body on a visible drawable: SetGlState, then glDrawElements.
csmGlDraw_Draw ==
  /\ pc = "loop"
  /\ LoopContinues(d, renderer, bindFailed)
  /\ \E r \in RenderDrawables(renderer, renderer.SortedDrawables[d + 1]) :
     \E st \in {SetGlState(context, mvp, r, gl.maskTexture)} :
     \E calls \in {Append(st.calls, glDrawElements("main", r.index))} :
          /\ ~SkipDrawable(r)
          /\ rd' = r
          /\ context' = st.context
          /\ seg' = calls
          /\ gl' = GlRun(gl, calls)
          /\ mainDraws' = mainDraws \o MainDrawsOf(calls)
          /\ drawBalance' = drawBalance + DrawCallsIn(calls) - DrawCallsFor(r)
  /\ pc' = "body"
  /\ UNCHANGED <<renderer, mvp, d, bindFailed>>

\* The graphics service fails a program or texture bind of the body that
\* just ran.  SetGlState calls the binds as statements and csmGlDraw
\* returns void: no code of the frame reads the outcome.
BindFails ==
  /\ pc = "body"
  /\ ~bindFailed
  /\ \E k \in 1..Len(seg) : IsBind(seg[k])
  /\ bindFailed' = TRUE
  /\ UNCHANGED <<pc, renderer, mvp, d, context, rd, gl, seg, mainDraws, drawBalance>>

\* The loop's ++d, after either body.
csmGlDraw_Next ==
  /\ pc = "body"
  /\ pc' = "loop"
  /\ d' = d + 1
  /\ rd' = NoDrawable
  /\ seg' = <<>>
  /\ UNCHANGED <<renderer, mvp, context, gl, mainDraws, bindFailed, drawBalance>>

\* The loop ends and csmGlDraw returns (it returns no value).
csmGlDraw_Return ==
  /\ pc = "loop"
  /\ ~LoopContinues(d, renderer, bindFailed)
  /\ pc' = "returned"
  /\ seg' = <<>>
  /\ UNCHANGED <<renderer, mvp, d, context, rd, gl, mainDraws, bindFailed, drawBalance>>

\* Between two frames: the frame's locals are gone, the service keeps its state.
FrameEnd ==
  /\ pc = "returned"
  /\ pc' = "idle"
  /\ renderer' = NoRenderer
  /\ mvp' = 1
  /\ d' = 0
  /\ context' = NoContext
  /\ rd' = NoDrawable
  /\ seg' = <<>>
  /\ mainDraws' = <<>>
  /\ bindFailed' = FALSE
  /\ drawBalance' = 0
  /\ UNCHANGED gl

Next ==
  \/ csmGlDraw_Barebone
  \/ csmGlDraw_Begin
  \/ csmGlDraw_Skip
  \/ csmGlDraw_Draw
  \/ BindFails
  \/ csmGlDraw_Next
  \/ csmGlDraw_Return
  \/ FrameEnd

Spec == Init /\ [][Next]_vars

\* -------------------------------------------------------------- properties

\* The entries 1..n of r's sorted list that are visible, in list order.
VisibleSorted(r, n) ==
  SelectSeq(SubSeq(r.SortedDrawables, 1, n), LAMBDA i : r.IsVisible[i])

\* A call without the pass it was issued in.
Sig(c) == << c.op, c.n, c.f >>

Sigs(calls) == [k \in 1..Len(calls) |-> Sig(calls[k])]

\* Where in `calls` the calls named op are.
Positions(calls, op) == {k \in 1..Len(calls) : calls[k].op = op}

\* A frame is running or has just returned.
InFrame == pc \in {"loop", "body", "returned"}

\* The loop body just ran on a visible drawable / on a visible masked one.
DrewVisible == pc = "body" /\ rd.IsVisible

DrewMasked == DrewVisible /\ Len(rd.Masks) > 0

\* C1: on a barebone renderer csmGlDraw returns in one step that issues no
\* graphics-service call and leaves the service as it was, whatever the
\* drawable list, the visibility flags and the masks.
C1_BareboneIssuesNoCall ==
  [][(pc' # "idle" /\ renderer'.IsBarebone)
       => (pc' = "returned" /\ seg' = <<>> /\ gl' = gl)]_vars

C1_Witness ==
  /\ pc = "returned"
  /\ renderer.IsBarebone
  /\ renderer.DrawableCount >= 2
  /\ \A i \in 0..(renderer.DrawableCount - 1) : renderer.IsVisible[i]

\* C2: in a non-barebone frame the loop's own draw calls are, at every loop
\* boundary, exactly the visible entries of SortedDrawables visited so far,
\* in list order; each body on a visible drawable issues one such call, as
\* its last call; and the frame returns only after the whole list.
C2_OneMainDrawPerVisibleInOrder ==
  (InFrame /\ ~renderer.IsBarebone) =>
    /\ mainDraws = VisibleSorted(renderer, IF pc = "body" THEN d + 1 ELSE d)
    /\ pc = "returned" => d = renderer.DrawableCount
    /\ DrewVisible =>
         /\ Len(SelectSeq(seg, IsMainDraw)) = 1
         /\ Sig(seg[Len(seg)]) = << "glDrawElements", rd.index, <<>> >>
         /\ seg[Len(seg)].pass = "main"
         /\ rd.index = renderer.SortedDrawables[d + 1]

C2_Witness ==
  /\ pc = "returned"
  /\ ~renderer.IsBarebone
  /\ renderer.SortedDrawables = << 1, 0 >>
  /\ mainDraws = << 1, 0 >>

\* The calls the mask-pass statement of C3 is about.
MaskPassOps ==
  {"ActivateGlMaskbuffer", "ActivateGlProgram", "glBlendFuncSeparate",
   "glDrawElements", "DeactivateGlMaskbuffer"}

\* C3: the body of a visible drawable with masks issues, before its own draw
\* call: ActivateGlMaskbuffer, ActivateGlProgram(GlMaskProgram), the blend
\* function with the Normal factors, one indexed draw per mask-list entry in
\* list order, DeactivateGlMaskbuffer, in this order; the mask target is
\* switched to and left once.
C3_MaskPassOrder ==
  DrewMasked =>
    /\ Cardinality(Positions(seg, "ActivateGlMaskbuffer")) = 1
    /\ Cardinality(Positions(seg, "DeactivateGlMaskbuffer")) = 1
    /\ LET k == CHOOSE j \in Positions(seg, "DeactivateGlMaskbuffer") : TRUE
           pass == SelectSeq(SubSeq(seg, 1, k), LAMBDA c : c.op \in MaskPassOps)
       IN /\ k < Len(seg)
          /\ IsMainDraw(seg[Len(seg)])
          /\ \A j \in (k + 1)..(Len(seg) - 1) : seg[j].op # "glDrawElements"
          /\ Sigs(pass) =
               << << "ActivateGlMaskbuffer", 0, <<>> >>,
                  << "ActivateGlProgram", GlMaskProgram, <<>> >>,
                  << "glBlendFuncSeparate", 0,
                     << "GL_ONE", "GL_ONE_MINUS_SRC_ALPHA",
                        "GL_ONE", "GL_ONE_MINUS_SRC_ALPHA" >> >> >>
               \o [j \in 1..Len(rd.Masks) |-> << "glDrawElements", rd.Masks[j], <<>> >>]
               \o << << "DeactivateGlMaskbuffer", 0, <<>> >> >>

C3_Witness ==
  /\ DrewMasked
  /\ rd.Masks = << 1, 0 >>
  /\ d = 1

\* The factors each blend mode stands for.
BlendFactors(mode) ==
  CASE mode = 0 -> << "GL_ONE", "GL_ONE_MINUS_SRC_ALPHA", "GL_ONE", "GL_ONE_MINUS_SRC_ALPHA" >>
    [] mode = 1 -> << "GL_SRC_ALPHA", "GL_ONE", "GL_ZERO", "GL_ONE" >>
    [] mode = 2 -> << "GL_DST_COLOR", "GL_ONE_MINUS_SRC_ALPHA", "GL_ZERO", "GL_ONE" >>

\* C4: at every draw call of the loop the program last activated in the
\* service is the masked program for a drawable with masks and the unmasked
\* program for one without.
C4_ProgramAtMainDraw ==
  DrewVisible =>
    gl.program = (IF Len(rd.Masks) > 0 THEN GlMaskedProgram ELSE GlNonMaskedProgram)

\* C5: at every draw call of the loop the blend function last set in the
\* service is the one of the drawn drawable's blend mode.
C5_BlendAtMainDraw == DrewVisible => gl.blend = BlendFactors(rd.BlendMode)

\* The indexed draw calls among `calls`, each with the program bound and the
\* render target in use when it is issued, the service being g before them.
RECURSIVE DrawsFrom(_, _)
DrawsFrom(g, calls) ==
  IF calls = <<>>
    THEN <<>>
    ELSE (IF Head(calls).op = "glDrawElements"
            THEN << [index |-> Head(calls).n, program |-> g.program,
                     maskbuffer |-> g.maskbuffer] >>
            ELSE <<>>)
         \o DrawsFrom(GlApply(g, Head(calls)), Tail(calls))

\* The model of the end-to-end scenario: two visible drawables, drawable 1
\* sorted before drawable 0.
Scenario ==
  /\ ~renderer.IsBarebone
  /\ renderer.DrawableCount = 2
  /\ renderer.SortedDrawables = << 1, 0 >>
  /\ renderer.IsVisible[0] /\ renderer.IsVisible[1]

\* C6: in the scenario, with drawable 1 masked by drawable 0 alone and
\* drawable 0 unmasked, the indexed draw calls are: none before the loop;
\* in the first body drawable 0 with the mask program on the mask target,
\* then drawable 1 with the masked program on the main target; in the
\* second body drawable 0 with the unmasked program on the main target;
\* none after.
C6_ScenarioDraws ==
  [][Scenario' =>
       /\ (pc = "idle") => DrawsFrom(gl, seg') = <<>>
       /\ (pc = "loop" /\ pc' = "body" /\ d = 0 /\ rd'.Masks = << 0 >>) =>
            DrawsFrom(gl, seg') =
              << [index |-> 0, program |-> GlMaskProgram, maskbuffer |-> TRUE],
                 [index |-> 1, program |-> GlMaskedProgram, maskbuffer |-> FALSE] >>
       /\ (pc = "loop" /\ pc' = "body" /\ d = 1 /\ rd'.Masks = <<>>) =>
            DrawsFrom(gl, seg') =
              << [index |-> 0, program |-> GlNonMaskedProgram, maskbuffer |-> FALSE] >>
       /\ (pc = "loop" /\ pc' = "body") => rd'.index = (IF d = 0 THEN 1 ELSE 0)
       /\ (pc = "loop" /\ pc' = "returned") => (d = 2 /\ seg' = <<>>)
       /\ (pc = "body" /\ pc' = "loop") => seg' = <<>>]_vars

C6_Witness ==
  /\ Scenario
  /\ pc = "body"
  /\ d = 0
  /\ rd.Masks = << 0 >>
  /\ gl.program = GlMaskedProgram
  /\ Cardinality(Positions(seg, "glDrawElements")) = 2

\* Where the body switched the draw program.
SwitchPositions(calls) ==
  {k \in 1..Len(calls) : calls[k].op = "ActivateGlProgram" /\ calls[k].pass = "state"}

\* A call with signature sig is issued after position k of the last step.
IssuedAfter(k, sig) == \E j \in (k + 1)..Len(seg) : Sig(seg[j]) = sig

\* C7: after a switch of the draw program the diffuse texture, the blend
\* function and the opacity are all issued again before the draw call,
\* whatever the drawable's texture handle, blend mode and opacity.
C7_AllStateReuploaded ==
  DrewVisible =>
    \A k \in SwitchPositions(seg) :
      /\ IssuedAfter(k, << "SetGlDiffuseTexture", rd.Texture, <<>> >>)
      /\ IssuedAfter(k, << "glBlendFuncSeparate", 0, BlendFactors(rd.BlendMode) >>)
      /\ IssuedAfter(k, << "SetGlOpacity", rd.Opacity, <<>> >>)

\* The calls of the draw pass of SetGlState named op.
DrawPass(calls, op) ==
  SelectSeq(calls, LAMBDA c : c.pass = "state" /\ c.op = op)

\* C8: in the draw pass the diffuse texture, the blend function and the
\* opacity are each issued at most once, and only if the drawable's value
\* differs from the cached one (the reset value after a program switch);
\* the body leaves the drawable's values in the cache; so an unmasked
\* drawable met with the unmasked program cached and its own texture, blend
\* mode and opacity cached issues its draw call and nothing else.
C8_StateChangeMinimisation ==
  [][(pc = "loop" /\ pc' = "body" /\ rd'.IsVisible) =>
       LET switched == SwitchPositions(seg') # {}
           cachedTexture == IF switched THEN 0 ELSE context.ActiveTexture
           cachedBlendMode == IF switched THEN 3 ELSE context.ActiveBlendMode
           cachedOpacity == IF switched THEN -1 ELSE context.ActiveOpacity
       IN /\ Len(DrawPass(seg', "SetGlDiffuseTexture"))
               = (IF rd'.Texture # cachedTexture THEN 1 ELSE 0)
          /\ Len(DrawPass(seg', "glBlendFuncSeparate"))
               = (IF rd'.BlendMode # cachedBlendMode THEN 1 ELSE 0)
          /\ Len(DrawPass(seg', "SetGlOpacity"))
               = (IF rd'.Opacity # cachedOpacity THEN 1 ELSE 0)
          /\ context'.ActiveTexture = rd'.Texture
          /\ context'.ActiveBlendMode = rd'.BlendMode
          /\ context'.ActiveOpacity = rd'.Opacity
          /\ context'.ActiveProgram = GlNonMaskedProgram <=> Len(rd'.Masks) = 0
          /\ ( /\ Len(rd'.Masks) = 0
               /\ context.ActiveProgram = GlNonMaskedProgram
               /\ context.ActiveTexture = rd'.Texture
               /\ context.ActiveBlendMode = rd'.BlendMode
               /\ context.ActiveOpacity = rd'.Opacity )
             => Sigs(seg') = << << "glDrawElements", rd'.index, <<>> >> >>]_vars

C8_Witness ==
  /\ DrewVisible
  /\ Len(seg) = 1
  /\ rd.Texture = 2
  /\ rd.BlendMode = 1

\* C9: the body on a non-visible drawable issues no call and leaves the
\* draw context, the service and the list of drawn drawables as they were,
\* masks or no masks, so the loop goes on from the state it would be in
\* without that entry.
C9_NonVisibleSkipped ==
  [][(pc = "loop" /\ pc' = "body" /\ ~renderer.IsVisible[renderer.SortedDrawables[d + 1]]) =>
       /\ rd'.index = renderer.SortedDrawables[d + 1]
       /\ seg' = <<>>
       /\ context' = context
       /\ gl' = gl
       /\ mainDraws' = mainDraws]_vars

C9_Witness ==
  /\ pc = "body"
  /\ ~rd.IsVisible
  /\ Len(rd.Masks) > 0
  /\ d >= 1
  /\ mainDraws # <<>>
  /\ seg = <<>>

\* C10 as stated: once a bind of the frame has failed, no later step of the
\* frame issues an indexed draw call.
C10_NoDrawAfterBindFailure ==
  [][bindFailed => Positions(seg', "glDrawElements") = {}]_vars

\* C10 amended: a failed bind changes nothing in the frame: the loop runs to
\* the end of the list and every visible drawable has its draw call, in
\* sorted order.
C10_FrameCompletesAfterBindFailure ==
  (pc = "returned" /\ bindFailed) =>
    /\ d = renderer.DrawableCount
    /\ mainDraws = VisibleSorted(renderer, renderer.DrawableCount)

C10_Witness ==
  /\ pc = "returned"
  /\ bindFailed
  /\ Len(mainDraws) = 2
  /\ renderer.DrawableCount = 2

\* ------------------------------------------- indices outside the valid range

\* Mask lists that break the caller's contract: csmGetDrawableMasks(model)[d]
\* for a model of n drawables with the index n, one past the last drawable,
\* among its entries.
UncheckedMaskLists(n) ==
  UNION {{s \in [1..k -> 0..n] :
            /\ \A i, j \in 1..k : s[i] = s[j] => i = j
            /\ \E i \in 1..k : s[i] = n} :
         k \in 1..MaxMasks}

\* A visible render drawable of renderer r whose mask list is such a list.
UncheckedDrawables(r, i) ==
  IF r.IsVisible[i]
    THEN [index : {i},
          IsVisible : {TRUE},
          Texture : TextureHandles,
          BlendMode : BlendModes,
          Opacity : Opacities,
          Masks : UncheckedMaskLists(r.DrawableCount)]
    ELSE {}

\* The calls of `calls` issued before the first indexed draw of a drawable
\* that is not one of the n drawables.
RECURSIVE BeforeFirstOutOfRange(_, _)
BeforeFirstOutOfRange(calls, n) ==
  IF calls = <<>> \/ (Head(calls).op = "glDrawElements" /\ Head(calls).n >= n)
    THEN <<>>
    ELSE << Head(calls) >> \o BeforeFirstOutOfRange(Tail(calls), n)

\* The loop body on a visible drawable with an out-of-range mask index.
\* SetGlState forms &RenderDrawables[index] and reads the index count and
\* offset through it without a test: the read is outside the array.  Here
\* the read yields whatever lies there and the draw call is issued with it.
csmGlDraw_DrawUnchecked ==
  /\ pc = "loop"
  /\ LoopContinues(d, renderer, bindFailed)
  /\ \E r \in UncheckedDrawables(renderer, renderer.SortedDrawables[d + 1]) :
     \E st \in {SetGlState(context, mvp, r, gl.maskTexture)} :
     \E calls \in {Append(st.calls, glDrawElements("main", r.index))} :
          /\ ~SkipDrawable(r)
          /\ rd' = r
          /\ context' = st.context
          /\ seg' = calls
          /\ gl' = GlRun(gl, calls)
          /\ mainDraws' = mainDraws \o MainDrawsOf(calls)
          /\ drawBalance' = drawBalance + DrawCallsIn(calls) - DrawCallsFor(r)
  /\ pc' = "body"
  /\ UNCHANGED <<renderer, mvp, d, bindFailed>>

\* The same body when the read outside the array faults: the process stops
\* inside the mask pass, with the mask target still the render target.
csmGlDraw_Fault ==
  /\ pc = "loop"
  /\ LoopContinues(d, renderer, bindFailed)
  /\ \E r \in UncheckedDrawables(renderer, renderer.SortedDrawables[d + 1]) :
     \E calls \in {BeforeFirstOutOfRange(MaskPass(context, mvp, r.Masks),
                                         renderer.DrawableCount)} :
          /\ ~SkipDrawable(r)
          /\ rd' = r
          /\ seg' = calls
          /\ gl' = GlRun(gl, calls)
          /\ drawBalance' = drawBalance + DrawCallsIn(calls) - DrawCallsFor(r)
  /\ pc' = "fault"
  /\ UNCHANGED <<renderer, mvp, d, context, mainDraws, bindFailed>>

NextUnchecked ==
  \/ Next
  \/ csmGlDraw_DrawUnchecked
  \/ csmGlDraw_Fault

\* csmGlDraw with callers that may break the index contract.
SpecUnchecked == Init /\ [][NextUnchecked]_vars

\* C11: no indexed draw call is ever issued for a drawable index outside
\* [0, DrawableCount), and no out-of-range index is used to read the
\* render-drawable array (no step ends in a fault of such a read).
C11_NoDrawOutOfRange ==
  /\ pc # "fault"
  /\ \A k \in 1..Len(seg) :
       seg[k].op = "glDrawElements" => seg[k].n \in 0..(renderer.DrawableCount - 1)

\* C12: in every step of a frame each ActivateGlProgram call is immediately
\* followed by SetGlMvp with the frame's matrix, each SetGlMvp call
\* immediately follows an ActivateGlProgram call, and the body of a visible
\* drawable without masks met with the unmasked program cached issues no
\* SetGlMvp and no ActivateGlProgram.
C12_MvpExactlyOnProgramActivation ==
  [][/\ \A k \in Positions(seg', "ActivateGlProgram") :
          /\ k < Len(seg')
          /\ Sig(seg'[k + 1]) = << "SetGlMvp", mvp', <<>> >>
     /\ \A k \in Positions(seg', "SetGlMvp") :
          /\ k > 1
          /\ seg'[k - 1].op = "ActivateGlProgram"
     /\ ( /\ pc = "loop" /\ pc' = "body" /\ rd'.IsVisible
          /\ Len(rd'.Masks) = 0
          /\ context.ActiveProgram = GlNonMaskedProgram )
        => /\ Positions(seg', "SetGlMvp") = {}
           /\ Positions(seg', "ActivateGlProgram") = {}]_vars

C12_Witness ==
  /\ DrewMasked
  /\ mvp = 2
  /\ d = 1
  /\ Cardinality(Positions(seg, "ActivateGlProgram")) = 2
  /\ Cardinality(Positions(seg, "SetGlMvp")) = 2

\* The calls that switch the render target.
IsTargetSwitch(c) == c.op \in {"ActivateGlMaskbuffer", "DeactivateGlMaskbuffer"}

\* The mask target is the render target when call k of `calls` is issued,
\* the main target being the render target before the first of them.
OnMaskTarget(calls, k) ==
  \E a \in 1..(k - 1) :
    /\ calls[a].op = "ActivateGlMaskbuffer"
    /\ \A j \in (a + 1)..(k - 1) : calls[j].op # "DeactivateGlMaskbuffer"

\* C13: the mask target is the render target at no loop boundary and not
\* when csmGlDraw has returned, so every step starts on the main target;
\* within a step ActivateGlMaskbuffer and DeactivateGlMaskbuffer alternate,
\* Activate first, Deactivate last; the indexed draws issued while the mask
\* target is active are the mask draws of the one drawable of that body,
\* its mask list in order, and every draw call of the loop itself is issued
\* on the main target.
C13_MaskTargetUsedSerially ==
  /\ ~gl.maskbuffer
  /\ \E switches \in {SelectSeq(seg, IsTargetSwitch)} :
       /\ Len(switches) % 2 = 0
       /\ \A k \in 1..Len(switches) :
            switches[k].op = (IF k % 2 = 1 THEN "ActivateGlMaskbuffer"
                                           ELSE "DeactivateGlMaskbuffer")
  /\ \A k \in Positions(seg, "glDrawElements") :
       /\ OnMaskTarget(seg, k) <=> seg[k].pass = "mask"
       /\ ~OnMaskTarget(seg, k) <=> IsMainDraw(seg[k])
  /\ \E onMask \in {SelectSeq(seg, LAMBDA c : c.op = "glDrawElements" /\ c.pass = "mask")} :
       [k \in 1..Len(onMask) |-> onMask[k].n]
         = (IF rd.IsVisible THEN rd.Masks ELSE <<>>)

C13_Witness ==
  /\ DrewMasked
  /\ d = 1
  /\ Len(mainDraws) = 2
  /\ Len(rd.Masks) = 2
  /\ Cardinality(Positions(seg, "ActivateGlMaskbuffer")) = 1
  /\ ~gl.maskbuffer

\* One call of csmGlDraw, from the service as it is before the first frame.
\* csmGlDraw is sequential code: once entered, each step of its loop is taken.
\* When the caller starts the frame and whether a bind fails is left open.
FrameNext ==
  \/ csmGlDraw_Barebone
  \/ csmGlDraw_Begin
  \/ csmGlDraw_Skip
  \/ csmGlDraw_Draw
  \/ BindFails
  \/ csmGlDraw_Next
  \/ csmGlDraw_Return

FairSpec ==
  /\ Init
  /\ [][FrameNext]_vars
  /\ WF_vars(csmGlDraw_Skip \/ csmGlDraw_Draw)
  /\ WF_vars(csmGlDraw_Next)
  /\ WF_vars(csmGlDraw_Return)

\* The number of visible drawables of renderer r.
VisibleCount(r) ==
  Cardinality({i \in 0..(r.DrawableCount - 1) : r.IsVisible[i]})

\* C14: a frame that entered the loop returns; the body at loop counter d
\* handles entry d of SortedDrawables and is followed by ++d, so each entry
\* is visited once; each body issues as many indexed draw calls as its
\* drawable calls for; on return d = DrawableCount, the loop itself has
\* drawn each visible drawable once and the indexed draw calls of the frame
\* number the visible drawables plus the mask counts of the visible
\* drawables; a frame on an empty list issues no indexed draw call.
C14_TerminatesWithExactDrawCount ==
  /\ (pc \in {"loop", "body"}) ~> (pc = "returned")
  /\ [][/\ (pc = "loop" /\ pc' = "body") =>
             /\ d' = d
             /\ d < renderer.DrawableCount
             /\ rd'.index = renderer.SortedDrawables[d + 1]
             /\ DrawCallsIn(seg') = DrawCallsFor(rd')
        /\ (pc = "body") => (pc' = "loop" /\ d' = d + 1) \/ (pc' = "body" /\ d' = d)
        /\ (pc = "idle" /\ pc' = "loop") => (d' = 0 /\ DrawCallsIn(seg') = 0)
        /\ (pc' = "returned" /\ ~renderer'.IsBarebone) =>
             /\ d' = renderer'.DrawableCount
             /\ DrawCallsIn(seg') = 0
             /\ drawBalance' = 0
             /\ Len(mainDraws') = VisibleCount(renderer')
        /\ renderer'.DrawableCount = 0 =>
             /\ DrawCallsIn(seg') = 0
             /\ pc' \in {"idle", "loop", "returned"}
             /\ mainDraws' = <<>>]_vars

C14_Witness ==
  /\ pc = "returned"
  /\ ~renderer.IsBarebone
  /\ renderer.DrawableCount = 2
  /\ VisibleCount(renderer) = 1
  /\ Len(mainDraws) = 1
  /\ drawBalance = 0
  /\ d = 2

\* The draw context as the claims describe it at the start of a frame.
FreshContext ==
  [ActiveProgram |-> GlNonMaskedProgram, ActiveBlendMode |-> 3,
   ActiveTexture |-> 0, ActiveOpacity |-> -1]

\* The calls of the body of drawable r when it is the first visible drawable
\* of a frame with matrix m, written out from r and m alone.
FirstVisibleCalls(m, r) ==
  (IF Len(r.Masks) > 0
     THEN << << "ActivateGlMaskbuffer", 0, <<>> >>,
             << "ActivateGlProgram", GlMaskProgram, <<>> >>,
             << "SetGlMvp", m, <<>> >>,
             << "SetGlOpacity", -1, <<>> >>,
             << "SetGlDiffuseTexture", 0, <<>> >>,
             << "glBlendFuncSeparate", 0, BlendFactors(NormalBlending) >> >>
          \o [k \in 1..Len(r.Masks) |-> << "glDrawElements", r.Masks[k], <<>> >>]
          \o << << "DeactivateGlMaskbuffer", 0, <<>> >>,
                << "ActivateGlProgram", GlMaskedProgram, <<>> >>,
                << "SetGlMvp", m, <<>> >>,
                << "SetGlMaskTexture", 3, <<>> >> >>
     ELSE <<>>)
  \o (IF r.Texture # 0 THEN << << "SetGlDiffuseTexture", r.Texture, <<>> >> >> ELSE <<>>)
  \o << << "glEnable", 0, <<>> >>,
        << "glBlendFuncSeparate", 0, BlendFactors(r.BlendMode) >>,
        << "SetGlOpacity", r.Opacity, <<>> >>,
        << "glDrawElements", r.index, <<>> >> >>

\* C15: whatever the earlier frames left in the service, a frame starts by
\* issuing the same three calls and with the fresh draw context (unmasked
\* program, blend mode 3, texture 0, opacity -1); the context stays fresh
\* until the frame's first visible drawable; the calls of that drawable's
\* body are fixed by the drawable and the matrix alone, and its blend
\* function and opacity are among them.
C15_FrameStartsFromFreshContext ==
  [][/\ (pc = "idle" /\ pc' = "loop") =>
          /\ context' = FreshContext
          /\ Sigs(seg') = << << "ActivateGlProgram", GlNonMaskedProgram, <<>> >>,
                             << "SetGlMvp", mvp', <<>> >>,
                             << "glBindVertexArray", 0, <<>> >> >>
     /\ (pc' \in {"loop", "body"} /\ mainDraws' = <<>>) => context' = FreshContext
     /\ (pc = "loop" /\ pc' = "body" /\ rd'.IsVisible /\ mainDraws = <<>>) =>
          /\ Sigs(seg') = FirstVisibleCalls(mvp, rd')
          /\ Len(DrawPass(seg', "glBlendFuncSeparate")) = 1
          /\ Len(DrawPass(seg', "SetGlOpacity")) = 1]_vars

\* A later frame has started: the service still has the additive blend
\* function of an earlier frame, the draw context is fresh.
C15_Witness ==
  /\ pc = "loop"
  /\ d = 0
  /\ context = FreshContext
  /\ gl.blend = BlendFactors(AdditiveBlending)

\* How often drawable i is drawn into the mask target by `calls`.
MaskDrawsOf(calls, i) ==
  Cardinality({k \in 1..Len(calls) :
                 /\ calls[k].op = "glDrawElements"
                 /\ calls[k].pass = "mask"
                 /\ calls[k].n = i})

\* C16: the body of a visible drawable draws each drawable of its mask list
\* into the mask target once, visible or not, and no other drawable; a mask
\* that is not visible is drawn by no draw call of the loop itself.
C16_MaskDrawnWhateverItsVisibility ==
  /\ DrewVisible =>
       \A i \in 0..(renderer.DrawableCount - 1) :
         MaskDrawsOf(seg, i) = (IF \E k \in 1..Len(rd.Masks) : rd.Masks[k] = i
                                  THEN 1 ELSE 0)
  /\ InFrame =>
       \A k \in 1..Len(mainDraws) : renderer.IsVisible[mainDraws[k]]

C16_Witness ==
  /\ DrewMasked
  /\ \E k \in 1..Len(rd.Masks) :
       /\ ~renderer.IsVisible[rd.Masks[k]]
       /\ MaskDrawsOf(seg, rd.Masks[k]) = 1
  /\ mainDraws = << rd.index >>
  /\ d = 1

\* The values uploaded by the calls of the mask pass named op.
MaskPassUploads(calls, op) ==
  LET up == SelectSeq(calls, LAMBDA c : c.pass = "mask" /\ c.op = op)
  IN [k \in 1..Len(up) |-> up[k].n]

====
